---- MODULE Spec2Model ----
(***************************************************************************)
(* The generation pipeline of vivian-interaction-creater:                  *)
(*   specgen/llm.py        LLMClient (fence stripping, JSON parsing)       *)
(*   specgen/schemas.py    the four JSON schemas                           *)
(*   specgen/generator.py  prompt building, validate/repair loop,          *)
(*                         generate_all                                    *)
(*                                                                         *)
(* Texts are sequences of tokens.  A token is one character of markup      *)
(* (a backtick, a newline, a blank, a JSON punctuation mark), one JSON     *)
(* string literal, the digit 1, or one bare word such as a language tag.   *)
(* JSON values are tagged tuples: <<"str", s>>, <<"num", n>>,              *)
(* <<"arr", items>>, <<"obj", keys, vals>>.                                *)
(***************************************************************************)
EXTENDS Integers, Sequences, FiniteSets, TLC

(* ------------------------------ state --------------------------------- *)

VARIABLES
  spec_text,     \* argument of generate_all
  docs_text,     \* argument of generate_all
  out_dir,       \* argument of generate_all, a path
  sdk_json_mode, \* whether the installed SDK accepts response_format
  server_json_mode, \* whether the server at BASE_URL accepts response_format
  dirs,          \* the directories that exist
  fs,            \* the files that exist: path -> text
  pc,            \* where generate_all stands
  idx,           \* position in FILE_ORDER
  attempt,       \* loop variable of _validate_or_repair
  user,          \* the user prompt of the current artifact
  data,          \* the current candidate
  dataFrom,      \* the artifact whose request returned the current candidate
  err,           \* the ValidationError being handled
  results,       \* the dict generate_all fills: filename -> value
  calls,         \* backend invocations for the current artifact
  requests,      \* requests sent over the network for the current artifact
  valFails,      \* validation failures of the current artifact
  log,           \* the externally visible events in order, an event that repeats
                 \* the one before it recorded once
  lastCall,      \* the messages of the last request sent
  lastRaw,       \* the content of the last response
  outcome,       \* "running", "returned", or the exception that left generate_all
  arg,           \* the argument of a function run on its own (FenceSpec)
  ret,           \* what that function returned
  env            \* what an entry point finds: settings, files, command line

vars == <<spec_text, docs_text, out_dir, sdk_json_mode, server_json_mode, dirs, fs, pc,
          idx, attempt, user, data, dataFrom, err, results, calls, requests, valFails, log,
          lastCall, lastRaw, outcome, arg, ret, env>>

\* what no step of generate_all changes
inputs == <<spec_text, docs_text, out_dir, sdk_json_mode, server_json_mode, arg, ret, env>>

(* ------------------------------ tokens -------------------------------- *)

\* one backtick character (the lexer of the tools rejects the character itself)
BT == "BACKTICK"
NL == "\n"
SP == " "

Whitespace == {SP, NL}

StrLit == {"Elements", "States", "Transitions", "Type", "Name", "Conditions",
           "SourceState", "DestinationState", "Note", "s"}

Digit == "1"

Word == {"json", "Here"}

(* ------------------------- Python str helpers ------------------------- *)

RECURSIVE lstrip(_, _)
lstrip(t, chars) ==
  IF t # <<>> /\ Head(t) \in chars THEN lstrip(Tail(t), chars) ELSE t

RECURSIVE rstrip(_, _)
rstrip(t, chars) ==
  IF t # <<>> /\ t[Len(t)] \in chars
  THEN rstrip(SubSeq(t, 1, Len(t) - 1), chars)
  ELSE t

strip(t, chars) == rstrip(lstrip(t, chars), chars)

startswith_fence(t) == Len(t) >= 3 /\ t[1] = BT /\ t[2] = BT /\ t[3] = BT

HasNewline(t) == \E i \in 1..Len(t) : t[i] = NL

FirstNewline(t) == CHOOSE i \in 1..Len(t) : t[i] = NL /\ \A j \in 1..(i - 1) : t[j] # NL

\* t.split("\n", 1)[1]
AfterFirstNewline(t) == SubSeq(t, FirstNewline(t) + 1, Len(t))

strip_code_fences(text) ==
  LET t == strip(text, Whitespace) IN
  IF startswith_fence(t)
  THEN LET u == strip(t, {BT}) IN
       IF HasNewline(u) THEN AfterFirstNewline(u) ELSE u
  ELSE t

(* ------------------------------ json.loads ---------------------------- *)

JStr(s) == <<"str", s>>
JNum(n) == <<"num", n>>
JArr(items) == <<"arr", items>>
JObj(keys, vals) == <<"obj", keys, vals>>
JNull == <<"null">>

IsObj(v) == v[1] = "obj"
IsArr(v) == v[1] = "arr"
IsStr(v) == v[1] = "str"

ObjKeys(v) == {v[2][i] : i \in 1..Len(v[2])}
ObjGet(v, k) == v[3][CHOOSE i \in 1..Len(v[2]) : v[2][i] = k]

\* dict assignment: a repeated key keeps its first position and takes the last value
ObjPut(keys, vals, k, v) ==
  IF \E i \in 1..Len(keys) : keys[i] = k
  THEN LET i == CHOOSE j \in 1..Len(keys) : keys[j] = k
       IN <<keys, [vals EXCEPT ![i] = v]>>
  ELSE <<Append(keys, k), Append(vals, v)>>

Fail == [ok |-> FALSE, val |-> JNull, next |-> 0]
Got(v, n) == [ok |-> TRUE, val |-> v, next |-> n]

RECURSIVE SkipWs(_, _)
SkipWs(s, i) == IF i <= Len(s) /\ s[i] \in Whitespace THEN SkipWs(s, i + 1) ELSE i

RECURSIVE DigitsEnd(_, _)
DigitsEnd(s, i) == IF i <= Len(s) /\ s[i] = Digit THEN DigitsEnd(s, i + 1) ELSE i

RECURSIVE ParseValue(_, _)
RECURSIVE ParseElems(_, _, _)
RECURSIVE ParseMembers(_, _, _, _)

ParseValue(s, i) ==
  LET j == SkipWs(s, i) IN
  IF j > Len(s) THEN Fail
  ELSE IF s[j] \in StrLit THEN Got(JStr(s[j]), j + 1)
  ELSE IF s[j] = Digit THEN Got(JNum(DigitsEnd(s, j) - j), DigitsEnd(s, j))
  ELSE IF s[j] = "["
       THEN LET k == SkipWs(s, j + 1) IN
            IF k <= Len(s) /\ s[k] = "]" THEN Got(JArr(<<>>), k + 1)
            ELSE ParseElems(s, j + 1, <<>>)
  ELSE IF s[j] = "{"
       THEN LET k == SkipWs(s, j + 1) IN
            IF k <= Len(s) /\ s[k] = "}" THEN Got(JObj(<<>>, <<>>), k + 1)
            ELSE ParseMembers(s, j + 1, <<>>, <<>>)
  ELSE Fail

ParseElems(s, i, acc) ==
  LET r == ParseValue(s, i) IN
  IF ~r.ok THEN Fail
  ELSE LET k == SkipWs(s, r.next) IN
       IF k > Len(s) THEN Fail
       ELSE IF s[k] = "," THEN ParseElems(s, k + 1, Append(acc, r.val))
       ELSE IF s[k] = "]" THEN Got(JArr(Append(acc, r.val)), k + 1)
       ELSE Fail

ParseMembers(s, i, keys, vals) ==
  LET k == SkipWs(s, i) IN
  IF k > Len(s) \/ s[k] \notin StrLit THEN Fail
  ELSE LET c == SkipWs(s, k + 1) IN
       IF c > Len(s) \/ s[c] # ":" THEN Fail
       ELSE LET r == ParseValue(s, c + 1) IN
            IF ~r.ok THEN Fail
            ELSE LET e == SkipWs(s, r.next)
                     kv == ObjPut(keys, vals, s[k], r.val)
                 IN IF e > Len(s) THEN Fail
                    ELSE IF s[e] = "," THEN ParseMembers(s, e + 1, kv[1], kv[2])
                    ELSE IF s[e] = "}" THEN Got(JObj(kv[1], kv[2]), e + 1)
                    ELSE Fail

\* json.loads: one value, surrounded by optional whitespace; anything else
\* raises json.JSONDecodeError (ok = FALSE)
json_loads(text) ==
  LET r == ParseValue(text, 1) IN
  IF r.ok /\ SkipWs(text, r.next) > Len(text)
  THEN [ok |-> TRUE, val |-> r.val]
  ELSE [ok |-> FALSE, val |-> JNull]

(* ------------------------------ json.dumps ---------------------------- *)

RECURSIVE Indent(_)
Indent(n) == IF n = 0 THEN <<>> ELSE <<SP, SP>> \o Indent(n - 1)

RECURSIVE Ones(_)
Ones(n) == IF n = 0 THEN <<>> ELSE <<Digit>> \o Ones(n - 1)

RECURSIVE DumpsAt(_, _)
RECURSIVE DumpItems(_, _, _)
RECURSIVE DumpMembers(_, _, _, _)

\* json.dumps(v, indent=2) with the value starting at nesting depth d
DumpsAt(v, d) ==
  IF IsStr(v) THEN <<v[2]>>
  ELSE IF v[1] = "num" THEN Ones(v[2])
  ELSE IF IsArr(v)
       THEN IF v[2] = <<>> THEN <<"[", "]">>
            ELSE <<"[", NL>> \o DumpItems(v[2], 1, d + 1) \o <<NL>> \o Indent(d) \o <<"]">>
  ELSE IF IsObj(v)
       THEN IF v[2] = <<>> THEN <<"{", "}">>
            ELSE <<"{", NL>> \o DumpMembers(v[2], v[3], 1, d + 1) \o <<NL>> \o Indent(d) \o <<"}">>
  ELSE <<"null">>

DumpItems(items, i, d) ==
  Indent(d) \o DumpsAt(items[i], d)
  \o (IF i = Len(items) THEN <<>> ELSE <<",", NL>> \o DumpItems(items, i + 1, d))

DumpMembers(keys, vals, i, d) ==
  Indent(d) \o <<keys[i], ":", SP>> \o DumpsAt(vals[i], d)
  \o (IF i = Len(keys) THEN <<>> ELSE <<",", NL>> \o DumpMembers(keys, vals, i + 1, d))

\* mutant: the file gets an empty object instead of the candidate
json_dumps_empty(v) == <<"{", "}">>

json_dumps(v) == DumpsAt(v, 0)

(* ------------------------------ schemas ------------------------------- *)

\* A schema of schemas.py: "type": "object" with the one property `key`, an array
\* whose items are objects with typed properties and required names.
INTERACTION_ELEMENTS_SCHEMA ==
  [key |-> "Elements", additionalProperties |-> FALSE,
   itemProps |-> <<"Type", "Name">>, itemTypes |-> <<"string", "string">>,
   itemRequired |-> {"Type", "Name"}, itemAdditional |-> TRUE]

VISUALIZATION_ELEMENTS_SCHEMA ==
  [key |-> "Elements", additionalProperties |-> FALSE,
   itemProps |-> <<"Type", "Name">>, itemTypes |-> <<"string", "string">>,
   itemRequired |-> {"Type", "Name"}, itemAdditional |-> TRUE]

STATES_SCHEMA ==
  [key |-> "States", additionalProperties |-> FALSE,
   itemProps |-> <<"Name", "Conditions">>, itemTypes |-> <<"string", "array">>,
   itemRequired |-> {"Name", "Conditions"}, itemAdditional |-> TRUE]

TRANSITIONS_SCHEMA ==
  [key |-> "Transitions", additionalProperties |-> FALSE,
   itemProps |-> <<"SourceState", "DestinationState">>, itemTypes |-> <<"string", "string">>,
   itemRequired |-> {"SourceState", "DestinationState"}, itemAdditional |-> TRUE]

HasType(v, ty) ==
  CASE ty = "string" -> IsStr(v)
    [] ty = "array"  -> IsArr(v)
    [] ty = "object" -> IsObj(v)

PropsOf(schema) == {schema.itemProps[i] : i \in 1..Len(schema.itemProps)}
TypeOfProp(schema, p) ==
  schema.itemTypes[CHOOSE i \in 1..Len(schema.itemProps) : schema.itemProps[i] = p]

ItemConforms(item, schema) ==
  /\ IsObj(item)
  /\ schema.itemRequired \subseteq ObjKeys(item)
  /\ \A p \in ObjKeys(item) \cap PropsOf(schema) : HasType(ObjGet(item, p), TypeOfProp(schema, p))
  /\ schema.itemAdditional \/ ObjKeys(item) \subseteq PropsOf(schema)

\* mutant: "additionalProperties": True at the top level
ConformsOpen(instance, schema) ==
  /\ IsObj(instance)
  /\ schema.key \in ObjKeys(instance)
  /\ IsArr(ObjGet(instance, schema.key))
  /\ LET items == ObjGet(instance, schema.key)[2]
     IN \A i \in 1..Len(items) : ItemConforms(items[i], schema)

\* jsonschema.validate(instance, schema) returns (TRUE) or raises ValidationError (FALSE)
Conforms(instance, schema) ==
  /\ IsObj(instance)
  /\ schema.key \in ObjKeys(instance)
  /\ schema.additionalProperties \/ ObjKeys(instance) \subseteq {schema.key}
  /\ IsArr(ObjGet(instance, schema.key))
  /\ LET items == ObjGet(instance, schema.key)[2]
     IN \A i \in 1..Len(items) : ItemConforms(items[i], schema)

(* ------------------------- generator.py: prompts ---------------------- *)

\* A prompt is a sequence of chunks.  k names what the chunk is; v is its text;
\* inst is the rejected instance a validation error quotes; from names the artifact
\* whose request produced that instance.
Chunk(k, v) == [k |-> k, v |-> v, inst |-> JNull, from |-> ""]
Lit(v) == Chunk("lit", v)

SYSTEM_PROMPT == <<Lit("Du bist ein strenger Konfigurator fuer Vivian-Prototypen ...")>>

\* mutant: two entries exchanged
FILE_ORDER_exchanged ==
  << <<"InteractionElements.json", INTERACTION_ELEMENTS_SCHEMA>>,
     <<"States.json", STATES_SCHEMA>>,
     <<"VisualizationElements.json", VISUALIZATION_ELEMENTS_SCHEMA>>,
     <<"Transitions.json", TRANSITIONS_SCHEMA>> >>

FILE_ORDER ==
  << <<"InteractionElements.json", INTERACTION_ELEMENTS_SCHEMA>>,
     <<"VisualizationElements.json", VISUALIZATION_ELEMENTS_SCHEMA>>,
     <<"States.json", STATES_SCHEMA>>,
     <<"Transitions.json", TRANSITIONS_SCHEMA>> >>

\* filename.replace(".json", "")
replace_json(filename) ==
  CASE filename = "InteractionElements.json"   -> "InteractionElements"
    [] filename = "VisualizationElements.json" -> "VisualizationElements"
    [] filename = "States.json"                -> "States"
    [] filename = "Transitions.json"           -> "Transitions"

\* mutant: the prompt also carries what was generated so far
build_user_prompt_with_results(spec, docs, target_file) ==
  << Lit("Ziel-Datei:"), Chunk("file", target_file),
     Lit("Aufgabe: Erzeuge ausschliesslich die JSON-Inhalte fuer die Datei oben. Projekt-Spezifikation:"),
     Chunk("spec", spec),
     Lit("Auszuege aus den offiziellen Dokus und Beispielen:"),
     Chunk("docs", docs) >>
  \o (IF "InteractionElements.json" \in DOMAIN results
      THEN <<[k |-> "err", v |-> "bisher erzeugt", inst |-> results["InteractionElements.json"],
              from |-> "InteractionElements.json"]>>
      ELSE <<>>)

build_user_prompt(spec, docs, target_file) ==
  << Lit("Ziel-Datei:"), Chunk("file", target_file),
     Lit("Aufgabe: Erzeuge ausschliesslich die JSON-Inhalte fuer die Datei oben. Projekt-Spezifikation:"),
     Chunk("spec", spec),
     Lit("Auszuege aus den offiziellen Dokus und Beispielen:"),
     Chunk("docs", docs) >>

\* What jsonschema reports first for an instance that does not conform
Reason(instance, schema) ==
  IF ~IsObj(instance) THEN "is not of type 'object'"
  ELSE IF schema.key \notin ObjKeys(instance) THEN "is a required property"
  ELSE IF ~(ObjKeys(instance) \subseteq {schema.key}) THEN "Additional properties are not allowed"
  ELSE IF ~IsArr(ObjGet(instance, schema.key)) THEN "is not of type 'array'"
  ELSE "item does not conform"

\* str(e) of the ValidationError: the message, the schema and the offending instance
ValidationErrorText(instance, from, schema) ==
  [k |-> "err", v |-> Reason(instance, schema), inst |-> instance, from |-> from]

\* mutant: the error is appended to the prompt of the request before
repair_user_prompt_accumulating(user_prompt, e) ==
  LET earlier == {i \in 1..Len(lastCall.user) : lastCall.user[i].k = "err"}
  IN user_prompt
     \o (IF calls >= 2 /\ earlier # {}
         THEN <<Lit("FEHLER:"), lastCall.user[CHOOSE i \in earlier : TRUE]>>
         ELSE <<>>)
     \o <<Lit("FEHLER:"), e, Lit("Bitte korrigiere das JSON und liefere nur korrektes JSON.")>>

\* user + f"\n\nFEHLER: {str(e)}\nBitte korrigiere das JSON und liefere nur korrektes JSON."
repair_user_prompt(user_prompt, e) ==
  user_prompt
  \o <<Lit("FEHLER:"), e, Lit("Bitte korrigiere das JSON und liefere nur korrektes JSON.")>>

(* ------------------------------ llm.py -------------------------------- *)

\* generate_json's prompt: system, the demand for one JSON object, the schema, name, user
json_prompt(system, user_prompt, schema, name) ==
  system
  \o <<Lit("Du MUSST ein einzelnes JSON-Objekt liefern ... (jsonschema):"),
       Chunk("schema", schema.key),
       Lit("Aktuelle Datei"), Chunk("name", name)>>
  \o user_prompt

\* The messages of the request that reaches the backend: with response_format when
\* the SDK knows the parameter, else (TypeError) the plain request with harder wording
chat_messages(prompt, json_mode) ==
  IF json_mode
  THEN [system |-> "Antworte ausschliesslich mit einem einzelnen JSON-Objekt. Keine Erklaerungen.",
        user |-> prompt, response_format |-> "json_object"]
  ELSE [system |-> "Gib ausschliesslich JSON aus (ein einzelnes Objekt), ohne Text oder Code-Fences.",
        user |-> prompt \o <<Lit("WICHTIG: Nur JSON, strikt am Schema orientieren.")>>,
        response_format |-> "none"]

\* mutant: the TypeError comes only after the request with response_format went out
create_calls_refused_late(prompt, sdk, server) ==
  IF sdk
  THEN << [messages |-> chat_messages(prompt, TRUE), sent |-> TRUE, raises |-> "none"] >>
  ELSE << [messages |-> chat_messages(prompt, TRUE), sent |-> TRUE, raises |-> "TypeError"],
          [messages |-> chat_messages(prompt, FALSE), sent |-> TRUE, raises |-> "none"] >>

\* mutant: no handler for the TypeError
create_calls_unhandled(prompt, sdk, server) ==
  << [messages |-> chat_messages(prompt, TRUE), sent |-> sdk,
      raises |-> IF ~sdk THEN "TypeError" ELSE IF server THEN "none" ELSE "BadRequestError"] >>

\* The calls of client.chat.completions.create in one _chat_json_mode, in order.  An
\* SDK that does not know response_format refuses the first call with a TypeError
\* before anything is sent, and the handler makes the second call; an SDK that knows
\* it sends the request, which a server that does not accept response_format answers
\* with an error status the SDK raises as BadRequestError (not a TypeError).
create_calls(prompt, sdk, server) ==
  IF sdk
  THEN << [messages |-> chat_messages(prompt, TRUE), sent |-> TRUE,
           raises |-> IF server THEN "none" ELSE "BadRequestError"] >>
  ELSE << [messages |-> chat_messages(prompt, TRUE), sent |-> FALSE, raises |-> "TypeError"],
          [messages |-> chat_messages(prompt, FALSE), sent |-> TRUE, raises |-> "none"] >>

\* how many of these calls put a request on the network
Sent(cs) == Cardinality({i \in DOMAIN cs : cs[i].sent})

\* what _chat_json_mode ends with: "none" (a response) or the exception leaving it
Raised(cs) == cs[Len(cs)].raises

\* resp.choices[0].message.content or "{}"
content_or_default(content) == IF content = <<>> THEN <<"{", "}">> ELSE content

\* mutant: text that does not parse is taken for the empty object
generate_json_lenient(content) ==
  LET r == json_loads(strip_code_fences(content_or_default(content)))
  IN IF r.ok THEN r ELSE [ok |-> TRUE, val |-> JObj(<<>>, <<>>)]

\* generate_json on the content the backend returned: [ok, val]; ok = FALSE is the
\* JSONDecodeError of json.loads
generate_json(content) == json_loads(strip_code_fences(content_or_default(content)))

(* ----------------------- what the backend may return ------------------ *)

\* the largest number of items in an array the backend returns
MaxItems == 1

ItemElement == <<"{", "Type", ":", "s", ",", "Name", ":", "s", "}">>
ItemState == <<"{", "Name", ":", "s", ",", "Conditions", ":", "[", "]", "}">>
ItemTransition == <<"{", "SourceState", ":", "s", ",", "DestinationState", ":", "s", "}">>

RECURSIVE Repeat(_, _)
Repeat(item, n) ==
  IF n = 0 THEN <<>>
  ELSE IF n = 1 THEN item
  ELSE item \o <<",">> \o Repeat(item, n - 1)

Body(key, item, n) == <<"{", key, ":", SP, "[">> \o Repeat(item, n) \o <<"]", "}">>

Fenced(tag, body) == <<BT, BT, BT>> \o tag \o <<NL>> \o body \o <<NL, BT, BT, BT>>

\* Contents of resp.choices[0].message.content: conforming objects for each schema
\* (plain or fenced), objects that conform to no schema, text that is no JSON, and
\* the empty content.
BackendContents ==
  {Body("Elements", ItemElement, n) : n \in 0..MaxItems}
  \cup {Fenced(<<"json">>, Body("States", ItemState, n)) : n \in 0..MaxItems}
  \cup {Body("Transitions", ItemTransition, n) : n \in 0..MaxItems}
  \cup { <<"{", "Elements", ":", "[", "{", "Type", ":", "s", "}", "]", "}">>,
         <<"{", "Elements", ":", "[", "]", ",", "Note", ":", "s", "}">>,
         <<"Here", SP, "{", "}">>,
         <<>> }

(* ------------------------------ paths --------------------------------- *)

Prefixes(path) == {SubSeq(path, 1, n) : n \in 1..Len(path)}

\* pathlib: Path.parent
Parent(path) == IF path = <<>> THEN <<>> ELSE SubSeq(path, 1, Len(path) - 1)

\* mutant: every artifact goes to the same file
ArtifactPathFixed(out, filename) == Append(out, "output.json")

\* out / filename
ArtifactPath(out, filename) == Append(out, filename)

\* mutant: the usage note goes next to the artifacts
UsagePathInside(out) == Append(out, "USAGE.md")

\* out.parent / "USAGE.md"
UsagePath(out) == Append(Parent(out), "USAGE.md")

USAGE_TEXT == <<"# Verwendung", NL, "InteractionElements.json", NL,
                "VisualizationElements.json", NL, "States.json", NL, "Transitions.json", NL>>

(* ------------------------------ inputs -------------------------------- *)

\* The arguments generate_all is called with: by app.py (OUT_DIR of the settings) and
\* by unityconnector.py (the FunctionalSpecification folder of the group), with an SDK
\* that knows response_format or one that does not, against a server that accepts it or
\* one that does not.  A path is the sequence of its components: <<>> is the
\* current directory ("." or "")
Configs ==
  { [spec |-> "red cube toggles on touch", docs |-> "",
     out |-> <<"out">>, json_mode |-> TRUE, server |-> TRUE],
    [spec |-> "red cube toggles on touch", docs |-> "==== README.md ====",
     out |-> <<"Resources", "Group", "FunctionalSpecification">>, json_mode |-> FALSE,
     server |-> FALSE],
    [spec |-> "blue sphere", docs |-> "==== README.md ====",
     out |-> <<"Resources", "Group", "FunctionalSpecification">>, json_mode |-> TRUE,
     server |-> TRUE],
    [spec |-> "blue sphere", docs |-> "",
     out |-> <<"out">>, json_mode |-> TRUE, server |-> FALSE],
    [spec |-> "blue sphere", docs |-> "",
     out |-> <<>>, json_mode |-> TRUE, server |-> TRUE] }

max_repairs == 2

NoArg == [body |-> <<>>, form |-> "none", text |-> <<>>]
NoRet == [text |-> <<>>, parsed |-> [ok |-> FALSE, val |-> JNull]]

FileNames == {FILE_ORDER[i][1] : i \in 1..Len(FILE_ORDER)}

filename == FILE_ORDER[idx][1]
schema == FILE_ORDER[idx][2]

\* generate_all called on its own, by no entry point
NoEnv == [entry |-> "none", api_key |-> <<>>, spec_exists |-> FALSE, spec_file |-> "",
          docs |-> "", out |-> <<>>, argv |-> <<>>]

NoCall == [system |-> "", user |-> <<>>, response_format |-> "none"]
NoError == Chunk("none", "")

Init ==
  /\ \E c \in Configs :
       /\ spec_text = c.spec
       /\ docs_text = c.docs
       /\ out_dir = c.out
       /\ sdk_json_mode = c.json_mode
       /\ server_json_mode = c.server
  /\ dirs \in {Prefixes(SubSeq(out_dir, 1, n)) : n \in 0..Len(out_dir)}
  /\ fs = <<>>
  /\ pc = "start"
  /\ idx = 1
  /\ attempt = 0
  /\ user = <<>>
  /\ data = JNull
  /\ dataFrom = ""
  /\ err = NoError
  /\ results = <<>>
  /\ calls = 0
  /\ requests = 0
  /\ valFails = 0
  /\ log = <<>>
  /\ lastCall = NoCall
  /\ lastRaw = <<>>
  /\ outcome = "running"
  /\ arg = NoArg
  /\ ret = NoRet
  /\ env = NoEnv

(* --------------------------- generator.py ----------------------------- *)

\* mutant: for attempt in range(max_repairs)
LoopRangeShort == 0..(max_repairs - 1)

\* for attempt in range(max_repairs + 1)
LoopRange == 0..max_repairs

\* mutant: the raise comes one attempt late
RaiseOneLater(a) == a = max_repairs + 1

\* mutant: the raise comes one attempt early
RaiseOneEarlier(a) == a = max_repairs - 1

\* if attempt == max_repairs: raise
RaiseOnFailure(a) == a = max_repairs

\* mutant: the call of _validate_or_repair is left out
SkipValidation == "write"

\* data = _validate_or_repair(client, data, ...) follows the initial generate_json
AfterInitialGeneration == "validate"

\* mutant: the loop sits in a try whose handler swallows the exception
UnwindSwallowed(exception) == "usage"

\* generate_all has no handler: an exception raised in the loop body leaves it
Unwind(exception) == "raised"

Logged(events, e) ==
  IF events # <<>> /\ events[Len(events)] = e THEN events ELSE Append(events, e)

\* the create calls of one client.generate_json with the given user prompt
CreateCalls(user_prompt) ==
  create_calls(json_prompt(SYSTEM_PROMPT, user_prompt, schema, replace_json(filename)),
               sdk_json_mode, server_json_mode)

\* One invocation of client.generate_json with the given user prompt; the request
\* that is answered is answered with `content`
Call(user_prompt, content) ==
  LET cs == CreateCalls(user_prompt)
  IN /\ lastCall' = cs[Len(cs)].messages
     /\ lastRaw' = IF Raised(cs) = "none" THEN content ELSE lastRaw
     /\ calls' = calls + 1
     /\ requests' = requests + Sent(cs)
     /\ log' = Logged(log, <<"call", filename>>)

\* out.mkdir(parents=True, exist_ok=True); client = LLMClient(...); results = {}
Start ==
  /\ pc = "start"
  /\ dirs' = dirs \cup Prefixes(out_dir)
  /\ pc' = "generate"
  /\ UNCHANGED <<inputs, fs, idx, attempt, user, data, dataFrom, err, results, calls, requests,
                 valFails, log, lastCall, lastRaw, outcome>>

\* user = _build_user_prompt(...); data = client.generate_json(...)
Generate ==
  /\ pc = "generate"
  /\ \E content \in BackendContents :
       LET u == build_user_prompt(spec_text, docs_text, filename)
           r == generate_json(content)
       IN /\ user' = u
          /\ Call(u, content)
          /\ IF Raised(CreateCalls(u)) # "none"
             THEN /\ pc' = Unwind(Raised(CreateCalls(u)))
                  /\ outcome' = Raised(CreateCalls(u))
                  /\ UNCHANGED <<data, dataFrom, attempt>>
             ELSE IF r.ok
             THEN /\ data' = r.val
                  /\ dataFrom' = filename
                  /\ attempt' = 0
                  /\ pc' = AfterInitialGeneration
                  /\ outcome' = outcome
             ELSE /\ pc' = Unwind("JSONDecodeError")
                  /\ outcome' = "JSONDecodeError"
                  /\ UNCHANGED <<data, dataFrom, attempt>>
  /\ UNCHANGED <<inputs, dirs, fs, idx, err, results, valFails>>

\* _validate_or_repair, one pass of the loop up to the repair request:
\* validate; return data, or raise on the last attempt, or go on to repair
Validate ==
  /\ pc = "validate"
  /\ attempt \in LoopRange
  /\ IF Conforms(data, schema)
     THEN /\ pc' = "write"
          /\ log' = Logged(log, <<"validated", filename>>)
          /\ UNCHANGED <<err, valFails, outcome>>
     ELSE /\ valFails' = valFails + 1
          /\ err' = ValidationErrorText(data, dataFrom, schema)
          /\ log' = log
          /\ IF RaiseOnFailure(attempt)
             THEN pc' = Unwind("ValidationError") /\ outcome' = "ValidationError"
             ELSE pc' = "repair" /\ outcome' = outcome
  /\ UNCHANGED <<inputs, dirs, fs, idx, attempt, user, data, dataFrom, results, calls, requests,
                 lastCall, lastRaw>>

\* repair_user = user + ...; data = client.generate_json(user=repair_user, ...),
\* which ends the except block (e is unbound); then the next pass of the loop, or
\* `return data` once the range is used up
Repair ==
  /\ pc = "repair"
  /\ \E content \in BackendContents :
       LET r == generate_json(content)
       IN /\ Call(repair_user_prompt(user, err), content)
          /\ IF Raised(CreateCalls(repair_user_prompt(user, err))) # "none"
             THEN /\ pc' = Unwind(Raised(CreateCalls(repair_user_prompt(user, err))))
                  /\ outcome' = Raised(CreateCalls(repair_user_prompt(user, err)))
                  /\ UNCHANGED <<data, dataFrom, attempt, err>>
             ELSE IF r.ok
             THEN /\ data' = r.val
                  /\ dataFrom' = filename
                  /\ attempt' = attempt + 1
                  /\ pc' = IF attempt + 1 \in LoopRange THEN "validate" ELSE "write"
                  /\ err' = NoError
                  /\ outcome' = outcome
             ELSE /\ pc' = Unwind("JSONDecodeError")
                  /\ outcome' = "JSONDecodeError"
                  /\ UNCHANGED <<data, dataFrom, attempt, err>>
  /\ UNCHANGED <<inputs, dirs, fs, idx, user, results, valFails>>

\* (out / filename).write_text(json.dumps(data, indent=2), encoding="utf-8")
Write ==
  /\ pc = "write"
  /\ fs' = (ArtifactPath(out_dir, filename) :> json_dumps(data)) @@ fs
  /\ log' = Logged(log, <<"write", filename>>)
  /\ pc' = "record"
  /\ UNCHANGED <<inputs, dirs, idx, attempt, user, data, dataFrom, err, results, calls, requests,
                 valFails, lastCall, lastRaw, outcome>>

\* results[filename] = data; then the next (filename, schema) of FILE_ORDER
Record ==
  /\ pc = "record"
  /\ results' = (filename :> data) @@ results
  /\ IF idx < Len(FILE_ORDER)
     THEN idx' = idx + 1 /\ pc' = "generate" /\ calls' = 0 /\ requests' = 0 /\ valFails' = 0
     ELSE idx' = idx /\ pc' = "usage" /\ UNCHANGED <<calls, requests, valFails>>
  /\ UNCHANGED <<inputs, dirs, fs, attempt, user, data, dataFrom, err, log, lastCall,
                 lastRaw, outcome>>

\* (out.parent / "USAGE.md").write_text(usage, encoding="utf-8"); return results
WriteUsage ==
  /\ pc = "usage"
  /\ fs' = (UsagePath(out_dir) :> USAGE_TEXT) @@ fs
  /\ log' = Logged(log, <<"usage", "USAGE.md">>)
  /\ pc' = "returned"
  /\ outcome' = "returned"
  /\ UNCHANGED <<inputs, dirs, idx, attempt, user, data, dataFrom, err, results, calls, requests,
                 valFails, lastCall, lastRaw>>

Next ==
  \/ Start
  \/ Generate
  \/ Validate
  \/ Repair
  \/ Write
  \/ Record
  \/ WriteUsage

Spec == Init /\ [][Next]_vars

(* ------------------ llm.py: fence stripping on its own ---------------- *)

\* the largest number of whitespace characters before and after a response
MaxPad == 1

\* How a response may wrap a JSON text: not at all; between a fence line with a
\* language tag and a closing fence line; between a bare fence line and a closing
\* fence line; directly between the two fences; directly after the opening fence
\* with the closing fence on a line of its own.
WrapForms == {"plain", "tagged", "untagged", "inline", "inline_open"}

Wrap(form, body) ==
  CASE form = "plain"       -> body
    [] form = "tagged"      -> Fenced(<<"json">>, body)
    [] form = "untagged"    -> Fenced(<<>>, body)
    [] form = "inline"      -> <<BT, BT, BT>> \o body \o <<BT, BT, BT>>
    [] form = "inline_open" -> <<BT, BT, BT>> \o body \o <<NL, BT, BT, BT>>

RECURSIVE Pads(_)
Pads(n) ==
  IF n = 0 THEN {<<>>}
  ELSE Pads(n - 1) \cup {Append(p, w) : p \in Pads(n - 1), w \in Whitespace}

CompactTexts == {Body("Elements", ItemElement, n) : n \in 0..MaxItems}

\* JSON texts on one line, the same values as json.dumps(indent=2) lays them out
\* over several lines, and three short values
JsonTexts ==
  CompactTexts
  \cup {json_dumps(json_loads(b).val) : b \in CompactTexts}
  \cup {<<"s">>, <<Digit>>, <<"[", "]">>}

\* generate_all is not running
Idle ==
  /\ spec_text = ""
  /\ docs_text = ""
  /\ out_dir = <<>>
  /\ sdk_json_mode = TRUE
  /\ server_json_mode = TRUE
  /\ dirs = {}
  /\ fs = <<>>
  /\ idx = 1
  /\ attempt = 0
  /\ user = <<>>
  /\ data = JNull
  /\ dataFrom = ""
  /\ err = NoError
  /\ results = <<>>
  /\ calls = 0
  /\ requests = 0
  /\ valFails = 0
  /\ log = <<>>
  /\ lastCall = NoCall
  /\ lastRaw = <<>>
  /\ outcome = "running"
  /\ env = NoEnv

generate_all_vars ==
  <<spec_text, docs_text, out_dir, sdk_json_mode, server_json_mode, dirs, fs, idx, attempt,
    user, data, dataFrom, err, results, calls, requests, valFails, log, lastCall, lastRaw,
    outcome, env>>

FenceInit ==
  /\ Idle
  /\ pc = "fence_strip"
  /\ \E b \in JsonTexts, f \in WrapForms, lead \in Pads(MaxPad), trail \in Pads(MaxPad) :
       arg = [body |-> b, form |-> f, text |-> lead \o Wrap(f, b) \o trail]
  /\ ret = NoRet

\* text = _strip_code_fences(raw)
StripFences ==
  /\ pc = "fence_strip"
  /\ ret' = [ret EXCEPT !.text = strip_code_fences(arg.text)]
  /\ pc' = "fence_loads"
  /\ UNCHANGED <<generate_all_vars, arg>>

\* return json.loads(text)
Loads ==
  /\ pc = "fence_loads"
  /\ ret' = [ret EXCEPT !.parsed = json_loads(ret.text)]
  /\ pc' = "fence_done"
  /\ UNCHANGED <<generate_all_vars, arg>>

FenceNext ==
  \/ StripFences
  \/ Loads

FenceSpec == FenceInit /\ [][FenceNext]_vars

(* ------------------ schemas.py: validation on its own ----------------- *)

Absent == <<"absent">>

\* what a field of an item may hold
FieldValues == {JStr("s"), JArr(<<>>), JNum(1)}

RECURSIVE PickKeys(_, _, _)
PickKeys(names, m, i) ==
  IF i > Len(names) THEN <<>>
  ELSE (IF m[i] = Absent THEN <<>> ELSE <<names[i]>>) \o PickKeys(names, m, i + 1)

RECURSIVE PickVals(_, _, _)
PickVals(names, m, i) ==
  IF i > Len(names) THEN <<>>
  ELSE (IF m[i] = Absent THEN <<>> ELSE <<m[i]>>) \o PickVals(names, m, i + 1)

\* Items for a schema: objects with each declared property and the undeclared
\* property "Note" absent or holding a string, an array or a number; and two values
\* that are no objects
ItemsFor(s) ==
  LET names == Append(s.itemProps, "Note")
  IN {JObj(PickKeys(names, m, 1), PickVals(names, m, 1)) :
        m \in [1..Len(names) -> FieldValues \cup {Absent}]}
     \cup {JStr("s"), JNull}

RECURSIVE ArraysOf(_, _)
ArraysOf(items, n) ==
  IF n = 0 THEN {<<>>}
  ELSE ArraysOf(items, n - 1)
       \cup {Append(a, x) : a \in {b \in ArraysOf(items, n - 1) : Len(b) = n - 1}, x \in items}

\* a key of another schema
OtherKey(s) == IF s.key = "States" THEN "Transitions" ELSE "States"

\* Instances for a schema: the array of up to MaxItems items under the key of the
\* schema, alone or next to a second field; under another key; bare; and values with
\* no array under the key
InstancesFor(s) ==
  LET arrays == {JArr(a) : a \in ArraysOf(ItemsFor(s), MaxItems)}
  IN {JObj(<<s.key>>, <<a>>) : a \in arrays}
     \cup {JObj(<<s.key, "Note">>, <<a, JStr("s")>>) : a \in arrays}
     \cup {JObj(<<OtherKey(s)>>, <<a>>) : a \in arrays}
     \cup arrays
     \cup {JObj(<<>>, <<>>), JObj(<<"Note">>, <<JStr("s")>>), JObj(<<s.key>>, <<JStr("s")>>),
           JObj(<<s.key>>, <<JObj(<<>>, <<>>)>>), JStr("s"), JNum(1), JNull}

SchemaInit ==
  /\ Idle
  /\ pc = "schema_validate"
  /\ \E i \in 1..Len(FILE_ORDER) :
       \E v \in InstancesFor(FILE_ORDER[i][2]) :
         arg = [file |-> FILE_ORDER[i][1], schema |-> FILE_ORDER[i][2], instance |-> v]
  /\ ret = [valid |-> FALSE]

\* validate(instance=data, schema=schema)
ValidateInstance ==
  /\ pc = "schema_validate"
  /\ ret' = [valid |-> Conforms(arg.instance, arg.schema)]
  /\ pc' = "schema_done"
  /\ UNCHANGED <<generate_all_vars, arg>>

SchemaNext == ValidateInstance

SchemaSpec == SchemaInit /\ [][SchemaNext]_vars

(* ------------------- app.py and unityconnector.py --------------------- *)

\* mutant: only the placeholder itself is refused
startswith_exact(t, prefix) == t = prefix

\* str.startswith
startswith(t, prefix) == Len(t) >= Len(prefix) /\ SubSeq(t, 1, Len(prefix)) = prefix

API_KEY_PLACEHOLDER == <<"sk-REPLACE_ME">>

\* the positions of the names in a flat list name, type, name, type, ...
NamePositions(pairs) == {i \in 1..Len(pairs) : i % 2 = 1}

\* {pairs[i]: pairs[i + 1] for i in range(0, len(pairs), 2)}: a later pair with the
\* same name replaces an earlier one
dict_of_pairs(pairs) ==
  [name \in {pairs[i] : i \in NamePositions(pairs)} |->
     LET last == CHOOSE i \in NamePositions(pairs) :
                   /\ pairs[i] = name
                   /\ \A j \in NamePositions(pairs) : pairs[j] = name => j <= i
     IN pairs[last + 1]]

\* unityconnector._parse_argv
parse_argv(argv) ==
  IF argv = <<>>
  THEN [group |-> "GeneratedGroup", description |-> "", objects |-> <<>>]
  ELSE LET new_style == Len(argv) >= 3 /\ (Len(argv) - 2) % 2 = 0
           rest == IF new_style THEN SubSeq(argv, 3, Len(argv))
                                ELSE SubSeq(argv, 2, Len(argv))
           pairs == IF Len(rest) % 2 # 0 THEN SubSeq(rest, 1, Len(rest) - 1) ELSE rest
       IN [group |-> IF new_style THEN argv[1] ELSE "GeneratedGroup",
           description |-> IF new_style THEN argv[2] ELSE argv[1],
           objects |-> dict_of_pairs(pairs)]

\* unityconnector._strip_code_fences: as the one of llm.py, and stripped at the end
unity_strip_code_fences(text) == strip(strip_code_fences(text), Whitespace)

\* unityconnector._build_prompt
unity_build_prompt(description, objects, docs_bundle) ==
  <<Lit("Erzeuge eine Vivian Interaktionsspezifikation im YAML-Format ..."),
    Chunk("description", description), Chunk("objects", objects),
    Chunk("docs", docs_bundle),
    Lit("WICHTIG: Nur die fertige Vivian-YAML-Spezifikation ausgeben")>>

\* the request of generate_spec
spec_messages(description, objects, docs_bundle) ==
  [system |-> "Du bist ein strenger Konfigurator fuer das Vivian-Framework. ...",
   user |-> unity_build_prompt(description, objects, docs_bundle),
   response_format |-> "none"]

\* unity_root / "Packages" / "vivian-example-prototypes" / "Resources" / group
group_dir(group) == <<"Packages", "vivian-example-prototypes", "Resources", group>>

\* group_dir / "FunctionalSpecification"
fs_dir(group) == Append(group_dir(group), "FunctionalSpecification")

\* f"{group}.yml", for the groups of the command lines below
yml_name(group) ==
  CASE group = "cube_touch_red" -> "cube_touch_red.yml"
    [] group = "GeneratedGroup" -> "GeneratedGroup.yml"
    [] OTHER -> ".yml"

\* group_dir / f"{group}.yml"
spec_path(group) == Append(group_dir(group), yml_name(group))

YamlBody == <<"name:", SP, "cube", NL, "objects:", NL, "states:">>

\* what the backend may answer to the request of generate_spec
YamlContents == {YamlBody, Fenced(<<"yaml">>, YamlBody)}

ApiKeys == {API_KEY_PLACEHOLDER, API_KEY_PLACEHOLDER \o <<"-1234">>, <<"sk-", "live">>}

\* command lines of unityconnector.py: none; a group, a description and one pair;
\* a description alone; an empty description and an object without type
Argvs ==
  { <<>>,
    <<"cube_touch_red", "Wuerfel wird bei Touch rot", "CubeTouch", "TouchArea">>,
    <<"Wuerfel wird bei Touch rot">>,
    <<"", "CubeTouch">> }

Envs ==
  { [entry |-> "app", api_key |-> k, spec_exists |-> e,
     spec_file |-> "red cube toggles on touch", docs |-> "==== README.md ====",
     out |-> <<"out">>, argv |-> <<>>] : k \in ApiKeys, e \in BOOLEAN }
  \cup
  { [entry |-> "unityconnector", api_key |-> k, spec_exists |-> FALSE,
     spec_file |-> "", docs |-> "==== PROJECT_README.md ====",
     out |-> <<>>, argv |-> a] : k \in ApiKeys, a \in Argvs }

MainInit ==
  /\ env \in Envs
  /\ pc = IF env.entry = "app" THEN "app_main" ELSE "unity_main"
  /\ spec_text = ""
  /\ docs_text = ""
  /\ out_dir = <<>>
  /\ sdk_json_mode = TRUE
  /\ server_json_mode = TRUE
  /\ dirs = {}
  /\ fs = <<>>
  /\ idx = 1
  /\ attempt = 0
  /\ user = <<>>
  /\ data = JNull
  /\ dataFrom = ""
  /\ err = NoError
  /\ results = <<>>
  /\ calls = 0
  /\ requests = 0
  /\ valFails = 0
  /\ log = <<>>
  /\ lastCall = NoCall
  /\ lastRaw = <<>>
  /\ outcome = "running"
  /\ arg = NoArg
  /\ ret = NoRet

\* what the checks of an entry point leave alone
main_frame ==
  <<sdk_json_mode, server_json_mode, dirs, fs, idx, attempt, user, data, dataFrom, err,
    results, calls, requests, valFails, log, lastCall, lastRaw, arg, env>>

\* app.main and unityconnector.main: if OPENAI_API_KEY.startswith("sk-REPLACE_ME"):
\* sys.exit(1)
CheckApiKey ==
  /\ pc \in {"app_main", "unity_main"}
  /\ IF startswith(env.api_key, API_KEY_PLACEHOLDER)
     THEN pc' = "exited" /\ outcome' = "exit(1)"
     ELSE pc' = (IF pc = "app_main" THEN "app_spec" ELSE "unity_argv") /\ outcome' = outcome
  /\ UNCHANGED <<main_frame, spec_text, docs_text, out_dir, ret>>

\* app.main: sys.exit(2) if the specification file does not exist; else read it,
\* bundle the docs and call generate_all
AppReadSpec ==
  /\ pc = "app_spec"
  /\ IF ~env.spec_exists
     THEN /\ pc' = "exited"
          /\ outcome' = "exit(2)"
          /\ UNCHANGED <<spec_text, docs_text, out_dir>>
     ELSE /\ spec_text' = env.spec_file
          /\ docs_text' = env.docs
          /\ out_dir' = env.out
          /\ pc' = "start"
          /\ outcome' = outcome
  /\ UNCHANGED <<main_frame, ret>>

\* unityconnector.main: group, description, object_interactions = _parse_argv(argv)
UnityParseArgv ==
  /\ pc = "unity_argv"
  /\ ret' = parse_argv(env.argv)
  /\ pc' = "unity_spec"
  /\ UNCHANGED <<main_frame, spec_text, docs_text, out_dir, outcome>>

\* unityconnector.generate_spec: ValueError without description and objects, which
\* main does not handle; else one request for the YAML text
UnityGenerateSpec ==
  /\ pc = "unity_spec"
  /\ IF ret.description = "" /\ DOMAIN ret.objects = {}
     THEN /\ pc' = "raised"
          /\ outcome' = "ValueError"
          /\ UNCHANGED <<spec_text, lastCall, lastRaw, log>>
     ELSE \E content \in YamlContents :
            /\ lastCall' = spec_messages(ret.description, ret.objects, env.docs)
            /\ lastRaw' = content
            /\ log' = Logged(log, <<"call", "generate_spec">>)
            /\ spec_text' = unity_strip_code_fences(content)
            /\ pc' = "unity_write"
            /\ outcome' = outcome
  /\ UNCHANGED <<sdk_json_mode, server_json_mode, dirs, fs, idx, attempt, user, data,
                 dataFrom, err, results, calls, requests, valFails, arg, env, docs_text,
                 out_dir, ret>>

\* unityconnector.main: make the group folders, write <group>.yml, load the docs and
\* call generate_all with out_dir = fs_dir
UnityWriteSpec ==
  /\ pc = "unity_write"
  /\ dirs' = dirs \cup Prefixes(fs_dir(ret.group))
  /\ fs' = (spec_path(ret.group) :> spec_text) @@ fs
  /\ docs_text' = env.docs
  /\ out_dir' = fs_dir(ret.group)
  /\ pc' = "start"
  /\ UNCHANGED <<sdk_json_mode, server_json_mode, idx, attempt, user, data, dataFrom, err,
                 results, calls, requests, valFails, log, lastCall, lastRaw, arg, env,
                 spec_text, outcome, ret>>

MainNext ==
  \/ CheckApiKey
  \/ AppReadSpec
  \/ UnityParseArgv
  \/ UnityGenerateSpec
  \/ UnityWriteSpec
  \/ Next

MainSpec == MainInit /\ [][MainNext]_vars

(* -------------- unityconnector.py: _parse_argv on its own ------------- *)

\* the largest number of object/type pairs on a command line
MaxPairs == 2

ObjectNames == {"Cube_Red", "CubeTouch"}
InteractionTypes == {"AppearingObject", "TouchArea"}

RECURSIVE PairLists(_)
PairLists(n) ==
  IF n = 0 THEN {<<>>}
  ELSE PairLists(n - 1)
       \cup {l \o <<o, ty>> : l \in {k \in PairLists(n - 1) : Len(k) = 2 * (n - 1)},
                              o \in ObjectNames, ty \in InteractionTypes}

\* The two forms of command line the docstrings name: new style, group and
\* description followed by the pairs; legacy, the description followed by the pairs
ArgvInit ==
  /\ Idle
  /\ pc = "argv_parse"
  /\ \E form \in {"new", "legacy"}, g \in {"cube_touch_red", "g"},
        d \in {"Wuerfel wird bei Touch rot", ""}, l \in PairLists(MaxPairs) :
       arg = [form |-> form, group |-> g, description |-> d, pairs |-> l,
              argv |-> IF form = "new" THEN <<g, d>> \o l ELSE <<d>> \o l]
  /\ ret = [group |-> "", description |-> "", objects |-> <<>>]

\* group, description, object_interactions = _parse_argv(argv)
RunParseArgv ==
  /\ pc = "argv_parse"
  /\ ret' = parse_argv(arg.argv)
  /\ pc' = "argv_done"
  /\ UNCHANGED <<generate_all_vars, arg>>

ArgvNext == RunParseArgv

ArgvSpec == ArgvInit /\ [][ArgvNext]_vars

(* ============================== claims ================================ *)

SchemaFor(f) == FILE_ORDER[CHOOSE i \in 1..Len(FILE_ORDER) : FILE_ORDER[i][1] = f][2]

Failed == outcome \in {"ValidationError", "JSONDecodeError"}

\* C1: whenever generate_all returns, each of the four values of the returned dict
\* validates against the schema FILE_ORDER pairs with its filename.
C1_SchemaConformance ==
  outcome = "returned" =>
    \A i \in 1..Len(FILE_ORDER) :
      /\ FILE_ORDER[i][1] \in DOMAIN results
      /\ Conforms(results[FILE_ORDER[i][1]], FILE_ORDER[i][2])

\* a run that returned although one artifact needed every repair it may have
C1_Witness ==
  /\ outcome = "returned"
  /\ DOMAIN results = FileNames
  /\ calls = 1 + max_repairs

\* C2: the backend is invoked at most 1 + max_repairs times for an artifact.
C2_RepairBound == calls <= 1 + max_repairs

\* the last repair request of an artifact has been answered
C2_Witness == calls = 1 + max_repairs /\ pc = "validate" /\ attempt = max_repairs

\* C3 as stated: the ValidationError leaves the repair loop after exactly
\* max_repairs validation failures.
C3_RaisesAfterMaxRepairsFailures ==
  outcome = "ValidationError" => valFails = max_repairs

\* C3 amended: the ValidationError leaves the repair loop after exactly
\* max_repairs + 1 validation failures (of the initial candidate and of max_repairs
\* repaired ones); a candidate that conforms after max_repairs - 1 validation
\* failures is returned.
C3_RaisesAfterAllAttemptsFail ==
  /\ [](outcome = "ValidationError" =>
          valFails = max_repairs + 1 /\ calls = 1 + max_repairs)
  /\ [][(pc = "validate" /\ valFails = max_repairs - 1 /\ Conforms(data, schema))
          => (pc' = "write" /\ data' = data /\ outcome' = "running")]_vars

\* every candidate of an artifact was rejected and the error left generate_all
C3_Witness == outcome = "ValidationError" /\ valFails = max_repairs + 1 /\ pc = "raised"

\* the order the claim names
ARTIFACT_ORDER ==
  <<"InteractionElements.json", "VisualizationElements.json", "States.json",
    "Transitions.json">>

ExpectedEvent(q) ==
  << <<"call", "validated", "write">>[((q - 1) % 3) + 1],
     ARTIFACT_ORDER[((q - 1) \div 3) + 1] >>

\* C4: backend calls, validations and file writes come in the fixed order
\* InteractionElements, VisualizationElements, States, Transitions: the events of a
\* run (calls for one artifact counted once) are a prefix of call, validated, write
\* of the first artifact, then of the second, and so on.
C4_OrderDeterminism ==
  \A q \in 1..Len(log) :
    log[q][1] # "usage" => (q <= 3 * Len(ARTIFACT_ORDER) /\ log[q] = ExpectedEvent(q))

\* the last artifact has been written after the three before it
C4_Witness ==
  /\ Len(log) >= 3 * Len(ARTIFACT_ORDER)
  /\ log[3 * Len(ARTIFACT_ORDER)] = <<"write", "Transitions.json">>

\* C5: in every state, what is recorded in results and what is written to an
\* artifact file conforms to the schema of that artifact.
C5_OnlyValidPersisted ==
  \A f \in FileNames :
    /\ f \in DOMAIN results => Conforms(results[f], SchemaFor(f))
    /\ Append(out_dir, f) \in DOMAIN fs =>
         LET r == json_loads(fs[Append(out_dir, f)])
         IN r.ok /\ Conforms(r.val, SchemaFor(f))

\* a run that aborted at the third artifact, two artifacts written and recorded
C5_Witness ==
  /\ outcome = "ValidationError"
  /\ idx = 3
  /\ Cardinality(DOMAIN results) = 2
  /\ Cardinality(DOMAIN fs) = 2

\* C6: once an artifact has failed, no backend call is made, no file is written,
\* nothing is recorded, the usage note is not written and generate_all does not
\* return.
C6_FailureAborts ==
  /\ [](Failed =>
          /\ pc = "raised"
          /\ Append(Parent(out_dir), "USAGE.md") \notin DOMAIN fs
          /\ \A j \in idx..Len(FILE_ORDER) :
               /\ Append(out_dir, FILE_ORDER[j][1]) \notin DOMAIN fs
               /\ FILE_ORDER[j][1] \notin DOMAIN results)
  /\ [][Failed => /\ calls' = calls
                  /\ lastCall' = lastCall
                  /\ fs' = fs
                  /\ results' = results
                  /\ outcome' = outcome]_vars

\* the second artifact failed after the first was written
C6_Witness == Failed /\ idx = 2 /\ Cardinality(DOMAIN fs) = 1

\* C7: when the run aborts at artifact k, the files of artifacts 1..k-1 are on disk
\* with the validated content that was written, and the aborting step changes no
\* file.
C7_EarlierFilesRemain ==
  /\ [](Failed =>
          \A j \in 1..(idx - 1) :
            LET f == FILE_ORDER[j][1] IN
            /\ f \in DOMAIN results
            /\ Append(out_dir, f) \in DOMAIN fs
            /\ fs[Append(out_dir, f)] = json_dumps(results[f])
            /\ Conforms(results[f], FILE_ORDER[j][2]))
  /\ [][(~Failed /\ Failed') => (fs' = fs /\ dirs' = dirs)]_vars

\* the run aborted at the fourth artifact with three files on disk
C7_Witness == Failed /\ idx = 4 /\ Cardinality(DOMAIN fs) = 3

PromptChunks(call) == {call.user[i] : i \in 1..Len(call.user)}
PromptFile(call) == (CHOOSE c \in PromptChunks(call) : c.k = "file").v

\* C8: every prompt sent for an artifact is made of fixed text, the specification
\* text, the grounding text, the name and schema of that artifact, and validation
\* errors of candidates returned for that same artifact: nothing returned for
\* another artifact is in it.
C8_NoCrossArtifactLeakage ==
  lastCall # NoCall =>
    \A c \in PromptChunks(lastCall) :
      LET f == PromptFile(lastCall) IN
      \/ c.k = "lit"
      \/ c.k = "file" /\ c.v = f
      \/ c.k = "name" /\ c.v = replace_json(f)
      \/ c.k = "schema" /\ c.v = SchemaFor(f).key
      \/ c.k = "spec" /\ c.v = spec_text
      \/ c.k = "docs" /\ c.v = docs_text
      \/ c.k = "err" /\ c.from = f /\ ~Conforms(c.inst, SchemaFor(f))

\* a repair request for States while InteractionElements is already recorded
C8_Witness ==
  /\ lastCall # NoCall
  /\ PromptFile(lastCall) = "States.json"
  /\ \E c \in PromptChunks(lastCall) : c.k = "err"
  /\ "InteractionElements.json" \in DOMAIN results

\* C10: a response that does not parse as JSON after fence stripping leaves
\* generate_all at once as a JSONDecodeError, from the initial generation and from
\* the repair loop alike, and no backend call follows it.
C10_ParseFailureNotRetried ==
  /\ []((calls > 0 /\ ~json_loads(strip_code_fences(content_or_default(lastRaw))).ok)
          => (outcome = "JSONDecodeError" /\ pc = "raised"))
  /\ [][outcome = "JSONDecodeError" => (calls' = calls /\ lastCall' = lastCall)]_vars

\* the first repair response did not parse: two repairs were still allowed
C10_Witness ==
  /\ outcome = "JSONDecodeError"
  /\ calls = 2
  /\ attempt < max_repairs
  /\ valFails = 1

\* C9: for a response that is a JSON text wrapped in triple-backtick fences, with
\* or without a language tag line, parsing what _strip_code_fences returns gives what
\* parsing the JSON text gives; a response without a fence reaches the parser
\* unchanged apart from surrounding whitespace.
C9_FenceStrippingAgrees ==
  pc = "fence_done" =>
    IF arg.form = "plain"
    THEN ret.text = strip(arg.text, Whitespace)
    ELSE ret.parsed = json_loads(arg.body)

\* What holds of the code: the same, for responses whose opening fence (with or
\* without a tag) ends its line, and for a one-line JSON text directly between the
\* two fences.
FenceOnOwnLineAgrees ==
  (pc = "fence_done" /\ (arg.form \in {"plain", "tagged", "untagged"}
                         \/ (arg.form = "inline" /\ ~HasNewline(arg.body)))) =>
    IF arg.form = "plain"
    THEN ret.text = strip(arg.text, Whitespace)
    ELSE ret.parsed = json_loads(arg.body) /\ ret.parsed.ok

\* C11: a candidate that conforms after k rejected ones (0 <= k <= max_repairs) is
\* reached with exactly k repair calls; it is returned by the repair loop, written
\* to the file of its artifact and recorded as it is, and the run goes on to the
\* next artifact.
C11_FirstValidCandidateKept ==
  /\ [](pc = "write" =>
          /\ Conforms(data, schema)
          /\ valFails \in 0..max_repairs
          /\ calls - 1 = valFails)
  /\ [][(pc = "validate" /\ Conforms(data, schema)) =>
          (pc' = "write" /\ data' = data /\ calls' = calls /\ valFails' = valFails)]_vars
  /\ [][pc = "write" =>
          /\ Append(out_dir, filename) \in DOMAIN fs'
          /\ json_loads(fs'[Append(out_dir, filename)]) = [ok |-> TRUE, val |-> data]
          /\ data' = data
          /\ pc' = "record"]_vars
  /\ [][pc = "record" =>
          /\ results'[filename] = data
          /\ IF idx < Len(FILE_ORDER)
             THEN idx' = idx + 1 /\ pc' = "generate"
             ELSE pc' = "usage"]_vars

\* the third candidate of the second artifact conformed and was written: two
\* repair calls
C11_Witness ==
  /\ pc = "record"
  /\ idx = 2
  /\ valFails = max_repairs
  /\ calls = 1 + max_repairs
  /\ Append(out_dir, filename) \in DOMAIN fs

\* C12: every invocation of generate_json puts exactly one request on the network,
\* whether the SDK takes response_format (preferred path) or refuses it with a
\* TypeError (fallback path); nothing else sends a request.
C12_OneRequestPerInvocation ==
  /\ [](requests = calls)
  /\ [][calls' = calls + 1 => requests' = requests + 1]_vars
  /\ [][calls' = calls => requests' = requests]_vars

\* three invocations on the fallback path, three requests
C12_Witness ==
  /\ ~sdk_json_mode
  /\ calls = 1 + max_repairs
  /\ requests = 1 + max_repairs
  /\ lastCall.response_format = "none"

FallbackWording == Lit("WICHTIG: Nur JSON, strikt am Schema orientieren.")

\* C13 as stated: whenever response_format is not supported, by the SDK or by the
\* server the client is connected to, the request that counts is the fallback request
\* and no error of the incompatibility reaches the caller of generate_json.
C13_IncompatibilityNeverSurfaces ==
  (calls > 0 /\ ~(sdk_json_mode /\ server_json_mode)) =>
    /\ lastCall.response_format = "none"
    /\ outcome \notin {"TypeError", "BadRequestError"}

\* C13 amended: when the installed SDK does not know response_format (TypeError),
\* the request sent is the fallback request (no response_format, harder wording)
\* and what it returns is what generate_json works on, no error of the
\* incompatibility reaching the caller; when the SDK knows the parameter and the
\* server rejects it, the BadRequestError leaves generate_json.
C13_SdkIncompatibilityRecovered ==
  /\ []((calls > 0 /\ ~sdk_json_mode) =>
          /\ lastCall.response_format = "none"
          /\ lastCall.user[Len(lastCall.user)] = FallbackWording
          /\ outcome \notin {"TypeError", "BadRequestError"})
  /\ [](outcome = "BadRequestError" <=> (calls > 0 /\ sdk_json_mode /\ ~server_json_mode))
  /\ [][(~sdk_json_mode /\ calls' = calls + 1) =>
          /\ lastRaw' \in BackendContents
          /\ IF generate_json(lastRaw').ok
             THEN data' = generate_json(lastRaw').val /\ outcome' = outcome
             ELSE outcome' = "JSONDecodeError"]_vars

\* a run on the fallback path, against a server that would reject response_format,
\* returned
C13_Witness ==
  /\ ~sdk_json_mode
  /\ ~server_json_mode
  /\ outcome = "returned"
  /\ lastCall.response_format = "none"

\* the API key still is the placeholder of settings.py
PlaceholderKey == env.api_key # <<>> /\ env.api_key[1] = "sk-REPLACE_ME"

\* app.py finds no specification file
SpecFileAbsent == env.entry = "app" /\ ~env.spec_exists

\* the command line of unityconnector.py gives no description and no object with
\* its type
NothingDescribed ==
  /\ env.entry = "unityconnector"
  /\ Len(env.argv) < 3
  /\ (env.argv = <<>> \/ env.argv[1] = "")

FatalOutcomes == {"exit(1)", "exit(2)", "ValueError"}

UsageNotes == {q \in DOMAIN fs : q[Len(q)] = "USAGE.md"}

\* C15: the usage note exists only when the four artifacts are validated, recorded
\* and on disk, and exists once generate_all has returned; it is written right after
\* the file of the fourth artifact; and the directory it is in is the one that holds
\* the directory of the four JSON files.
C15_UsageNoteAfterAllFourOneLevelUp ==
  /\ UsageNotes # {} =>
       \A i \in 1..Len(FILE_ORDER) :
         /\ Append(out_dir, FILE_ORDER[i][1]) \in DOMAIN fs
         /\ FILE_ORDER[i][1] \in DOMAIN results
         /\ Conforms(results[FILE_ORDER[i][1]], FILE_ORDER[i][2])
  /\ outcome = "returned" => UsageNotes # {}
  /\ \A q \in 1..Len(log) :
       log[q][1] = "usage" => (q > 1 /\ log[q - 1] = <<"write", "Transitions.json">>)
  /\ \A note \in UsageNotes :
       /\ Len(out_dir) = Len(note)
       /\ SubSeq(out_dir, 1, Len(note) - 1) = SubSeq(note, 1, Len(note) - 1)

\* What holds of the code: the same, with the note in out.parent, which pathlib
\* computes from the text of the path: the parent of "." is "." itself.
UsageNoteInLexicalParent ==
  /\ UsageNotes # {} =>
       \A i \in 1..Len(FILE_ORDER) :
         /\ Append(out_dir, FILE_ORDER[i][1]) \in DOMAIN fs
         /\ FILE_ORDER[i][1] \in DOMAIN results
         /\ Conforms(results[FILE_ORDER[i][1]], FILE_ORDER[i][2])
  /\ outcome = "returned" => UsageNotes # {}
  /\ \A q \in 1..Len(log) :
       log[q][1] = "usage" => (q > 1 /\ log[q - 1] = <<"write", "Transitions.json">>)
  /\ UsageNotes \subseteq {Append(Parent(out_dir), "USAGE.md")}
  /\ out_dir # <<>> =>
       \A note \in UsageNotes :
         /\ Len(out_dir) = Len(note)
         /\ SubSeq(out_dir, 1, Len(note) - 1) = SubSeq(note, 1, Len(note) - 1)

\* the files a step creates, rewrites or removes
ChangedFiles ==
  {q \in DOMAIN fs' : q \notin DOMAIN fs \/ fs'[q] # fs[q]} \cup (DOMAIN fs \ DOMAIN fs')

\* the directories a step creates or removes
ChangedDirs == (dirs' \ dirs) \cup (dirs \ dirs')

ArtifactPaths == {Append(out_dir, f) : f \in FileNames}

\* C16 as stated: every step of generate_all changes only the output directory, the
\* four artifact files in it and the usage note in its parent; no directory above
\* the output directory is created, other than its parent at most, whatever exists
\* when generate_all starts.
C16_NothingAboveParentTouched ==
  [][/\ ChangedDirs \subseteq {out_dir, Parent(out_dir)}
     /\ ChangedFiles \subseteq ArtifactPaths \cup {Append(Parent(out_dir), "USAGE.md")}]_vars

\* C16 amended: the only directories generate_all creates are the output directory
\* and each ancestor of it that does not exist yet (mkdir with parents=True), all
\* created by its first statement; the only files it creates or rewrites are the
\* four artifact files in the output directory and USAGE.md in out_dir.parent;
\* nothing is removed.
C16_WritesScopedToOutputAndAncestors ==
  /\ [][pc = "start" => (dirs' = dirs \cup Prefixes(out_dir) /\ fs' = fs)]_vars
  /\ [][pc # "start" => dirs' = dirs]_vars
  /\ [][/\ ChangedFiles \subseteq ArtifactPaths \cup {Append(Parent(out_dir), "USAGE.md")}
        /\ DOMAIN fs \subseteq DOMAIN fs']_vars
  /\ [](DOMAIN fs \subseteq ArtifactPaths \cup {Append(Parent(out_dir), "USAGE.md")})
  /\ [](pc # "start" => Prefixes(out_dir) \subseteq dirs)

\* generate_all returned for an output directory three levels deep: the directory
\* and its two ancestors exist, with the four artifacts and the usage note
C16_Witness ==
  /\ outcome = "returned"
  /\ Len(out_dir) = 3
  /\ dirs = Prefixes(out_dir)
  /\ DOMAIN fs = ArtifactPaths \cup {Append(Parent(out_dir), "USAGE.md")}

\* the array field and the item fields with their types, per artifact
Declared(file) ==
  CASE file = "InteractionElements.json" ->
         [field |-> "Elements", required |-> {<<"Type", "str">>, <<"Name", "str">>}]
    [] file = "VisualizationElements.json" ->
         [field |-> "Elements", required |-> {<<"Type", "str">>, <<"Name", "str">>}]
    [] file = "States.json" ->
         [field |-> "States", required |-> {<<"Name", "str">>, <<"Conditions", "arr">>}]
    [] file = "Transitions.json" ->
         [field |-> "Transitions",
          required |-> {<<"SourceState", "str">>, <<"DestinationState", "str">>}]

\* an object whose only field is the array field, every item of the array an object
\* with the required fields of the declared types
AsDescribed(v, d) ==
  /\ v[1] = "obj"
  /\ ObjKeys(v) = {d.field}
  /\ ObjGet(v, d.field)[1] = "arr"
  /\ \A i \in 1..Len(ObjGet(v, d.field)[2]) :
       LET item == ObjGet(v, d.field)[2][i] IN
       /\ item[1] = "obj"
       /\ \A r \in d.required : r[1] \in ObjKeys(item) /\ ObjGet(item, r[1])[1] = r[2]

\* C17: a value validates against the schema of an artifact exactly when it is an
\* object whose only top-level field is the array field of the artifact and every
\* item is an object with the required fields of the declared types; fields beyond
\* these in an item do not matter, a second top-level field makes the value invalid.
C17_SchemaShape ==
  pc = "schema_done" => (ret.valid <=> AsDescribed(arg.instance, Declared(arg.file)))

\* a States value whose item has a field beyond the required ones validated
C17_Witness ==
  /\ pc = "schema_done"
  /\ ret.valid
  /\ arg.file = "States.json"
  /\ Len(ObjGet(arg.instance, "States")[2]) = 1
  /\ "Note" \in ObjKeys(ObjGet(arg.instance, "States")[2][1])

\* the pairs of a command line as a dict holds them: every name, with the type of
\* the last pair that names it
HoldsPairs(objects, pairs) ==
  /\ DOMAIN objects = {pairs[i] : i \in {j \in 1..Len(pairs) : j % 2 = 1}}
  /\ \A i \in {j \in 1..Len(pairs) : j % 2 = 1} :
       (\A k \in (i + 1)..Len(pairs) : (k % 2 = 1) => pairs[k] # pairs[i])
         => objects[pairs[i]] = pairs[i + 1]

\* C18: _parse_argv returns, for a new-style command line with N >= 0 pairs, the
\* group argv[0], the description argv[1] and the N pairs; and for a legacy command
\* line the group "GeneratedGroup", the description argv[0] and the pairs from argv[1].
C18_ParseArgvForms ==
  pc = "argv_done" =>
    /\ ret.group = (IF arg.form = "new" THEN arg.group ELSE "GeneratedGroup")
    /\ ret.description = arg.description
    /\ HoldsPairs(ret.objects, arg.pairs)

\* What holds of the code: the same for a new-style command line with at least one
\* pair and for every legacy command line; a new-style command line without pairs
\* is taken for a legacy one whose description is the group.
ParseArgvFormsWithPairs ==
  pc = "argv_done" =>
    IF arg.form = "new" /\ arg.pairs = <<>>
    THEN /\ ret.group = "GeneratedGroup"
         /\ ret.description = arg.group
         /\ DOMAIN ret.objects = {}
    ELSE /\ ret.group = (IF arg.form = "new" THEN arg.group ELSE "GeneratedGroup")
         /\ ret.description = arg.description
         /\ HoldsPairs(ret.objects, arg.pairs)

ErrorChunks(call) == {i \in 1..Len(call.user) : call.user[i].k = "err"}

\* the chunks of a request that carry the schema and the artifact name
SchemaAndName(call) == {c \in PromptChunks(call) : c.k \in {"schema", "name"}}

\* the repair request for the candidate `rejected` of the current artifact, as the
\* claim describes it
ExpectedRepairPrompt(rejected) ==
  SYSTEM_PROMPT
  \o <<Lit("Du MUSST ein einzelnes JSON-Objekt liefern ... (jsonschema):"),
       Chunk("schema", schema.key), Lit("Aktuelle Datei"),
       Chunk("name", replace_json(filename))>>
  \o build_user_prompt(spec_text, docs_text, filename)
  \o <<Lit("FEHLER:"),
       [k |-> "err", v |-> Reason(rejected, schema), inst |-> rejected, from |-> filename],
       Lit("Bitte korrigiere das JSON und liefere nur korrektes JSON.")>>
  \o (IF sdk_json_mode THEN <<>> ELSE <<FallbackWording>>)

\* C19: a repair request is the original user prompt of the artifact, the
\* validation error of the candidate rejected last and the fixed instruction; no
\* request carries more than one validation error; system message, response mode,
\* schema and artifact name are those of the request before it.
C19_RepairPromptFromOriginal ==
  /\ [](Cardinality(ErrorChunks(lastCall)) <= 1)
  /\ [][pc = "repair" =>
          /\ lastCall'.user = ExpectedRepairPrompt(data)
          /\ lastCall'.system = lastCall.system
          /\ lastCall'.response_format = lastCall.response_format
          /\ SchemaAndName(lastCall') = SchemaAndName(lastCall)
          /\ SubSeq(lastCall'.user, 1, Len(SYSTEM_PROMPT)) = SYSTEM_PROMPT]_vars

\* the second repair request of an artifact went out, after two different
\* candidates were rejected
C19_Witness ==
  /\ calls = 3
  /\ valFails = 2
  /\ pc = "validate"
  /\ Cardinality(ErrorChunks(lastCall)) = 1

\* Where the processing of the current artifact stands: its generation ahead or a
\* request in flight; a parsed candidate about to be validated; a rejected candidate
\* with a repair request about to be built; the candidate accepted; an exception
\* on its way out
Phase ==
  CASE pc \in {"start", "generate"} -> "Attempting"
    [] pc = "validate" -> "Validating"
    [] pc = "repair" -> "Repairing"
    [] pc \in {"write", "record", "usage", "returned"} -> "Succeeded"
    [] pc = "raised" -> "Failed"

\* the transitions the claim lists
StatedTransitions ==
  { <<"Attempting", "Validating">>, <<"Validating", "Succeeded">>,
    <<"Validating", "Repairing">>, <<"Validating", "Failed">>,
    <<"Repairing", "Attempting">> }

\* and the one by which a response that does not parse, or an error of the
\* backend, leaves the generation step
WithRequestFailure == StatedTransitions \cup { <<"Attempting", "Failed">> }

\* The pairs of phases one step may connect under a set of transitions: a
\* transition, or, for the step that builds the repair prompt and sends it,
\* Repairing -> Attempting followed by a transition out of Attempting
StepsOf(transitions) ==
  transitions
  \cup {<<"Repairing", p>> : p \in {q \in {"Validating", "Succeeded", "Repairing", "Failed"} :
                                     /\ <<"Repairing", "Attempting">> \in transitions
                                     /\ <<"Attempting", q>> \in transitions}}

\* C20 as stated: while one artifact is processed, every change of phase follows
\* the five listed transitions.
C20_RefinesStatedMachine ==
  [][(idx' = idx /\ Phase' # Phase) => <<Phase, Phase'>> \in StepsOf(StatedTransitions)]_vars

\* C20 amended: every change of phase follows the five listed transitions or
\* Attempting -> Failed; Validating goes to Succeeded exactly on a pass, to
\* Repairing on a failure with budget left, to Failed on a failure without; a
\* request leads to Validating when the response parses and to Failed otherwise;
\* and only Succeeded and Failed are final.
C20_RefinesMachineWithRequestFailure ==
  /\ [][(idx' = idx /\ Phase' # Phase) => <<Phase, Phase'>> \in StepsOf(WithRequestFailure)]_vars
  /\ [][pc = "validate" =>
          Phase' = (IF Conforms(data, schema) THEN "Succeeded"
                    ELSE IF attempt < max_repairs THEN "Repairing" ELSE "Failed")]_vars
  /\ [][(pc \in {"generate", "repair"}) =>
          Phase' = (IF (server_json_mode \/ ~sdk_json_mode) /\ generate_json(lastRaw').ok
                    THEN "Validating"
                    ELSE "Failed")]_vars
  /\ [](Phase \in {"Attempting", "Validating", "Repairing"} => ENABLED Next)
  /\ [][Phase = "Failed" => Phase' = "Failed"]_vars

\* an artifact accepted after one repair: Attempting, Validating, Repairing,
\* Attempting, Validating, Succeeded
C20_Witness ==
  /\ pc = "write"
  /\ valFails = 1
  /\ calls = 2

(* ------------------- C21: termination and request bound --------------- *)

\* generate_all on its own under the interpreter's scheduling: a statement that
\* can run does run, and every backend call is answered (Generate and Repair
\* take their response from BackendContents)
FairSpec == Spec /\ WF_vars(Next)

Terminated == pc \in {"returned", "raised"}

\* the invocations of client.generate_json the run may still make: 1 + max_repairs
\* for each entry of FILE_ORDER not yet reached, and what is left of the
\* 1 + max_repairs of the current entry
Budget == (Len(FILE_ORDER) - idx) * (1 + max_repairs) + ((1 + max_repairs) - calls)

\* the statements of generate_all left before the next request or the end
Rank ==
  CASE pc = "start" -> 6
    [] pc = "validate" -> 5
    [] pc \in {"repair", "write"} -> 4
    [] pc = "record" -> 3
    [] pc \in {"generate", "usage"} -> 2
    [] OTHER -> 0

Variant == 7 * Budget + Rank

\* C21: generate_all begins with a budget of 4 * (1 + max_repairs) = 12 requests;
\* every invocation of generate_json (and so every request sent to the backend,
\* at most one per invocation) takes one from the budget, no step adds to it and
\* it is never overdrawn; every state that is not final has a next step, every
\* step lowers a variant that is a natural number, and the run ends with pc at
\* "returned" (the results of all four artifacts) or at "raised".
C21_TerminatesWithinRequestBudget ==
  /\ [](pc = "start" => Budget = 4 * (1 + max_repairs) /\ Budget = 12)
  /\ [](Budget \in 0..(4 * (1 + max_repairs)))
  /\ [](requests <= calls)
  /\ [][(pc \in {"generate", "repair"}) =>
          calls' = calls + 1 /\ requests' <= requests + 1 /\ Budget' = Budget - 1]_vars
  /\ [][(pc \notin {"generate", "repair"}) =>
          lastCall' = lastCall /\ calls' \in {calls, 0} /\ Budget' <= Budget]_vars
  /\ [](~Terminated => ENABLED Next)
  /\ [](Variant \in Nat)
  /\ [][Variant' < Variant]_vars
  /\ [](Terminated => ~ENABLED Next)
  /\ [](pc = "returned" => DOMAIN results = FileNames /\ outcome = "returned")
  /\ [](pc = "raised" => outcome \notin {"running", "returned"})

\* the same under fairness: every run of generate_all reaches its end
C21_EventuallyTerminated == <>Terminated

\* a run that returns after all twelve requests: every artifact was accepted at
\* the last attempt
C21_Witness ==
  /\ pc = "returned"
  /\ Budget = 0
  /\ valFails = max_repairs

(* ------- generator.py: _validate_or_repair for any max_repairs -------- *)

\* the largest |max_repairs| a caller passes
MaxBudget == 2

\* the values of the parameter max_repairs
RepairBudgets == (0 - MaxBudget)..MaxBudget

\* range(n): empty for n <= 0
range(n) == 0..(n - 1)

\* the candidates a caller may pass as `data`: any parsed response
Candidates == {generate_json(c).val : c \in {b \in BackendContents : generate_json(b).ok}}

NotReturned == [returned |-> FALSE, value |-> JNull]

\* _validate_or_repair(client, data, schema, system, user, name, max_repairs)
\* called on its own with the prompt and the schema of one entry of FILE_ORDER
RepairInit ==
  /\ spec_text = "blue sphere"
  /\ docs_text = ""
  /\ out_dir = <<>>
  /\ sdk_json_mode = TRUE
  /\ server_json_mode = TRUE
  /\ dirs = {}
  /\ fs = <<>>
  /\ idx \in 1..Len(FILE_ORDER)
  /\ attempt = 0
  /\ user = build_user_prompt(spec_text, docs_text, filename)
  /\ data \in Candidates
  /\ dataFrom = filename
  /\ err = NoError
  /\ results = <<>>
  /\ calls = 0
  /\ requests = 0
  /\ valFails = 0
  /\ log = <<>>
  /\ lastCall = NoCall
  /\ lastRaw = <<>>
  /\ outcome = "running"
  /\ env = NoEnv
  /\ \E m \in RepairBudgets : arg = [max_repairs |-> m, data |-> data]
  /\ ret = NotReturned
  /\ pc = "for"

repair_frame == <<spec_text, docs_text, out_dir, sdk_json_mode, server_json_mode, dirs, fs,
                  idx, user, results, env, arg>>

\* for attempt in range(max_repairs + 1): the first pass, or none
EnterLoop ==
  /\ pc = "for"
  /\ pc' = IF 0 \in range(arg.max_repairs + 1) THEN "try" ELSE "after_loop"
  /\ UNCHANGED <<repair_frame, attempt, data, dataFrom, err, calls, requests, valFails, log,
                 lastCall, lastRaw, outcome, ret>>

\* validate(instance=data, schema=schema); return data; and in the handler
\* if attempt == max_repairs: raise
TryValidate ==
  /\ pc = "try"
  /\ IF Conforms(data, schema)
     THEN /\ pc' = "vor_returned"
          /\ ret' = [returned |-> TRUE, value |-> data]
          /\ log' = Logged(log, <<"validated", filename>>)
          /\ UNCHANGED <<err, valFails, outcome>>
     ELSE /\ valFails' = valFails + 1
          /\ err' = ValidationErrorText(data, dataFrom, schema)
          /\ log' = log
          /\ ret' = ret
          /\ IF attempt = arg.max_repairs
             THEN pc' = "vor_raised" /\ outcome' = "ValidationError"
             ELSE pc' = "except" /\ outcome' = outcome
  /\ UNCHANGED <<repair_frame, attempt, data, dataFrom, calls, requests, lastCall, lastRaw>>

\* repair_user = user + ...; data = client.generate_json(user=repair_user, ...);
\* then the next pass of the loop, or the statement after it
RepairRequest ==
  /\ pc = "except"
  /\ \E content \in BackendContents :
       LET r == generate_json(content)
       IN /\ Call(repair_user_prompt(user, err), content)
          /\ IF r.ok
             THEN /\ data' = r.val
                  /\ dataFrom' = filename
                  /\ attempt' = attempt + 1
                  /\ pc' = IF attempt + 1 \in range(arg.max_repairs + 1)
                           THEN "try" ELSE "after_loop"
                  /\ err' = NoError
                  /\ outcome' = outcome
             ELSE /\ pc' = "vor_raised"
                  /\ outcome' = "JSONDecodeError"
                  /\ UNCHANGED <<data, dataFrom, attempt, err>>
  /\ UNCHANGED <<repair_frame, valFails, ret>>

\* return data, the statement after the loop
ReturnAfterLoop ==
  /\ pc = "after_loop"
  /\ pc' = "vor_returned"
  /\ ret' = [returned |-> TRUE, value |-> data]
  /\ UNCHANGED <<repair_frame, attempt, data, dataFrom, err, calls, requests, valFails, log,
                 lastCall, lastRaw, outcome>>

RepairNext ==
  \/ EnterLoop
  \/ TryValidate
  \/ RepairRequest
  \/ ReturnAfterLoop

RepairSpec == RepairInit /\ [][RepairNext]_vars

(* ------------- C22: _validate_or_repair for any max_repairs ----------- *)

\* the last thing _validate_or_repair did before it returned was a validation
\* that passed
ValidatedAtReturn == log # <<>> /\ log[Len(log)] = <<"validated", filename>>

\* C22: for every integer max_repairs, _validate_or_repair returns only a candidate
\* whose validation against the schema passed, or it raises; and with
\* max_repairs = 0 it validates once, makes no backend call and raises if that
\* validation fails.
C22_ReturnsOnlyValidated ==
  /\ pc = "vor_returned" =>
       ret.returned /\ ValidatedAtReturn /\ Conforms(ret.value, schema)
  /\ (arg.max_repairs = 0 /\ pc \in {"vor_returned", "vor_raised"}) =>
       /\ calls = 0
       /\ valFails + (IF pc = "vor_returned" THEN 1 ELSE 0) = 1
       /\ ~Conforms(arg.data, schema) => pc = "vor_raised" /\ outcome = "ValidationError"

\* what holds of the code: the same for max_repairs >= 0; with max_repairs < 0
\* the caller's candidate comes back as it was passed, without a validation and
\* without a backend call
ReturnsValidatedForNonNegative ==
  /\ (arg.max_repairs >= 0 /\ pc = "vor_returned") =>
       ret.returned /\ ValidatedAtReturn /\ Conforms(ret.value, schema)
  /\ (arg.max_repairs = 0 /\ pc \in {"vor_returned", "vor_raised"}) =>
       /\ calls = 0
       /\ valFails + (IF pc = "vor_returned" THEN 1 ELSE 0) = 1
       /\ ~Conforms(arg.data, schema) => pc = "vor_raised" /\ outcome = "ValidationError"
  /\ (arg.max_repairs < 0 /\ pc \notin {"for", "after_loop"}) =>
       /\ pc = "vor_returned"
       /\ ret.value = arg.data
       /\ calls = 0
       /\ valFails = 0
       /\ log = <<>>
  /\ pc \in {"for", "try", "except", "after_loop", "vor_returned", "vor_raised"}
  /\ pc = "after_loop" => arg.max_repairs < 0

\* a candidate that does not conform, returned without any validation
UnvalidatedReturned ==
  /\ pc = "vor_returned"
  /\ arg.max_repairs < 0
  /\ ~Conforms(ret.value, schema)

====
